---- MODULE Spec2Model ----
(***************************************************************************)
(* Model of body-TDA's stateless helpers:                                  *)
(*   src/bodytda/mesh_utils.py          scan_height, scan_normalization    *)
(*   src/bodytda/persistent_homology.py bottleneck_distance                *)
(*                                                                         *)
(* Python lists are objects: a scan is one outer list object holding       *)
(* references to row list objects.  The heap is modelled explicitly        *)
(* (lists, rows) so that aliasing between the argument, the local          *)
(* scantemp and the returned value is visible.  Python index k is TLA+     *)
(* index k+1.  Floats are modelled by exact rationals <<n, d>>.            *)
(***************************************************************************)
EXTENDS Integers, Sequences, FiniteSets

(***************************************************************************)
(* Exact rational arithmetic (stands for Python float arithmetic).         *)
(***************************************************************************)
Abs(n) == IF n < 0 THEN -n ELSE n

RECURSIVE GCD(_, _)
GCD(a, b) == IF b = 0 THEN a ELSE GCD(b, a % b)

\* n/d in lowest terms with a positive denominator (d # 0)
Rat(n, d) ==
    LET g == GCD(Abs(n), Abs(d))
        s == IF d < 0 THEN -1 ELSE 1
    IN  <<(s * n) \div g, (s * d) \div g>>

Q(n) == <<n, 1>>
RMul(a, b) == Rat(a[1] * b[1], a[2] * b[2])
RSub(a, b) == Rat(a[1] * b[2] - b[1] * a[2], a[2] * b[2])
RDiv(a, b) == Rat(a[1] * b[2], a[2] * b[1])
RLess(a, b) == a[1] * b[2] < b[1] * a[2]
RAbs(a) == <<Abs(a[1]), a[2]>>
RZero == Q(0)

(***************************************************************************)
(* Bounds and input sets.                                                  *)
(***************************************************************************)
MaxLen == 3
Lens == 0..MaxLen
Xs == {3}
Ys == {1}
Zs == {-1, 0, 2}
Points == {<<Q(x), Q(y), Q(z)>> : x \in Xs, y \in Ys, z \in Zs}

\* def scan_normalization(scan, target_height=1.7)
DefaultTargetHeight == Rat(17, 10)
\* the target_height argument: <<>> when omitted, <<t>> when passed
TargetArgs == {<<>>} \cup {<<Q(t)>> : t \in {-2, 0, 3}}
TargetHeight(arg) == IF arg = <<>> THEN DefaultTargetHeight ELSE arg[1]

\* the address of the caller's outer list object, and the None reference
ScanAddr == 1
None == 0

VARIABLES
    rows,      \* heap: row address -> the row list object's coordinates
    lists,     \* heap: list address -> the outer list object's row references
    scan,      \* the caller's variable `scan` (a list address)
    target,    \* the target_height argument
    ret,       \* the reference scan_normalization returned (None before)
    saved,     \* history: the caller's coordinates when the call was made
    height,    \* <<>> or <<h>>: the value the last scan_height call returned
    measured,  \* the list reference that call was made on (None before)
    pc,        \* "start", "returned", "modified" or "raised"
    exc,       \* the exception raised, "" if none
    \* persistent_homology.bottleneck_distance and its caller
    pd1,       \* pdiagram_decolor_1: one diagram per homology dimension
    pd2,       \* pdiagram_decolor_2
    dimension, \* the dimension argument: <<>> when omitted, <<n>> when passed
    bd,        \* <<>> or <<r>>: the value bottleneck_distance returned
    bpc,       \* "idle", "start", "returned" or "raised"
    bexc       \* the exception raised, "" if none

meshVars == <<rows, lists, scan, target, ret, saved, height, measured, pc, exc>>
phVars == <<pd1, pd2, dimension, bd, bpc, bexc>>
vars == <<meshVars, phVars>>

(***************************************************************************)
(* mesh_utils.scan_height                                                  *)
(***************************************************************************)
\* a slip in the index: the y coordinate, row[1], is read instead of row[2]
ZColumnY(rws, s) == [i \in 1..Len(s) |-> rws[s[i]][2]]

\* z = [row[2] for row in scan]
ZColumn(rws, s) == [i \in 1..Len(s) |-> rws[s[i]][3]]

RECURSIVE MaxFrom(_, _, _)
MaxFrom(z, i, best) ==
    IF i > Len(z) THEN best
    ELSE MaxFrom(z, i + 1, IF RLess(best, z[i]) THEN z[i] ELSE best)
\* max(z), z non-empty
PyMax(z) == MaxFrom(z, 2, z[1])

RECURSIVE MinFrom(_, _, _)
MinFrom(z, i, best) ==
    IF i > Len(z) THEN best
    ELSE MinFrom(z, i + 1, IF RLess(z[i], best) THEN z[i] ELSE best)
\* min(z), z non-empty
PyMin(z) == MinFrom(z, 2, z[1])

\* return max(z) - min(z); s is the content of the list object passed
scan_height(rws, s) ==
    LET z == ZColumn(rws, s) IN RSub(PyMax(z), PyMin(z))

(***************************************************************************)
(* mesh_utils.scan_normalization                                           *)
(***************************************************************************)
\* coeff = target_height / scan_height(scan)
Coeff(t, h) == RDiv(t, h)

\* a slip in the range: range(2), so that only x and y are scaled
RECURSIVE InnerLoopXY(_, _, _, _)
InnerLoopXY(rws, a, coeff, j) ==
    IF j > 2 THEN rws
    ELSE InnerLoopXY([rws EXCEPT ![a][j] = RMul(rws[a][j], coeff)], a, coeff, j + 1)

\* for j in range(3): scantemp[i][j] = scantemp[i][j] * coeff
RECURSIVE InnerLoop(_, _, _, _)
InnerLoop(rws, a, coeff, j) ==
    IF j > 3 THEN rws
    ELSE InnerLoop([rws EXCEPT ![a][j] = RMul(rws[a][j], coeff)], a, coeff, j + 1)

\* for i in range(len(scan)): ...   (s: the content of scantemp, which is scan)
RECURSIVE OuterLoop(_, _, _, _)
OuterLoop(rws, s, coeff, i) ==
    IF i > Len(s) THEN rws
    ELSE OuterLoop(InnerLoop(rws, s[i], coeff, 1), s, coeff, i + 1)

\* scantemp = scan: the local names the argument's list object, no copy is made
Scantemp(scanRef) == scanRef

\* the coordinates reachable from a list reference, as a value
Coordinates(rws, lsts, ref) == [i \in 1..Len(lsts[ref]) |-> rws[lsts[ref][i]]]

\* persistent_homology is not in use
PHIdle ==
    /\ pd1 = <<>> /\ pd2 = <<>> /\ dimension = <<>>
    /\ bd = <<>> /\ bpc = "idle" /\ bexc = ""

\* The scans Init builds: row objects 1..k, named in order of first use.
FirstUseOrder(s) ==
    \A i \in 1..Len(s) :
        s[i] = 1 \/ \E h \in 1..(i - 1) : s[h] = s[i] - 1 \/ s[h] >= s[i]
RowRefs(n) == {s \in [1..n -> 1..n] : FirstUseOrder(s)}
Used(s) == {s[i] : i \in 1..Len(s)}

Init ==
    /\ \E n \in Lens : \E s \in RowRefs(n) :
          /\ lists = [a \in {ScanAddr} |-> s]
          /\ rows \in [Used(s) -> Points]
    /\ scan = ScanAddr
    /\ target \in TargetArgs
    /\ ret = None
    /\ saved = <<>>
    /\ height = <<>>
    /\ measured = None
    /\ pc = "start"
    /\ exc = ""
    /\ PHIdle

\* The caller evaluates scan_height(ref) on its scan or on the returned scan.
ScanHeight ==
    /\ pc \in {"start", "returned", "modified"}
    /\ \E ref \in {scan} \cup (IF ret = None THEN {} ELSE {ret}) :
          IF Len(lists[ref]) = 0
          THEN /\ pc' = "raised"
               /\ exc' = "ValueError"
               /\ height' = <<>>
               /\ measured' = None
          ELSE /\ height' = <<scan_height(rows, lists[ref])>>
               /\ measured' = ref
               /\ UNCHANGED <<pc, exc>>
    /\ UNCHANGED <<rows, lists, scan, target, ret, saved>>
    /\ UNCHANGED phVars

\* The caller evaluates scan_normalization(scan, target_height).
ScanNormalization ==
    /\ pc = "start"
    /\ saved' = Coordinates(rows, lists, scan)
    /\ height' = <<>>
    /\ measured' = None
    /\ IF Len(lists[scan]) = 0
       THEN /\ pc' = "raised"
            /\ exc' = "ValueError"
            /\ UNCHANGED <<rows, ret>>
       ELSE LET h == scan_height(rows, lists[scan]) IN
            IF h = RZero
            THEN /\ pc' = "raised"
                 /\ exc' = "ZeroDivisionError"
                 /\ UNCHANGED <<rows, ret>>
            ELSE /\ rows' = OuterLoop(rows, lists[Scantemp(scan)],
                                      Coeff(TargetHeight(target), h), 1)
                 /\ ret' = Scantemp(scan)
                 /\ pc' = "returned"
                 /\ exc' = ""
    /\ UNCHANGED <<lists, scan, target>>
    /\ UNCHANGED phVars

\* The caller writes one coordinate of the scan it got back: ret[i][j] = v.
WriteValues == {Q(7)}
ModifyReturned ==
    /\ pc = "returned"
    /\ \E i \in 1..Len(lists[ret]) : \E j \in 1..3 : \E v \in WriteValues :
          rows' = [rows EXCEPT ![lists[ret][i]][j] = v]
    /\ pc' = "modified"
    /\ height' = <<>>
    /\ measured' = None
    /\ UNCHANGED <<lists, scan, target, ret, saved, exc>>
    /\ UNCHANGED phVars

Next == ScanHeight \/ ScanNormalization \/ ModifyReturned

Spec == Init /\ [][Next]_vars

(***************************************************************************)
(* Properties of mesh_utils, checked under Spec.                           *)
(***************************************************************************)
ZValues(rws, s) == {rws[s[i]][3] : i \in 1..Len(s)}
Greatest(S) == CHOOSE m \in S : \A z \in S : ~RLess(m, z)
Least(S) == CHOOSE m \in S : \A z \in S : ~RLess(z, m)
Perms(n) == {p \in [1..n -> 1..n] : \A i, j \in 1..n : p[i] = p[j] => i = j}
AltXY == {Q(-5), Q(0), Q(4)}
DistinctRowObjects(s) == \A i, j \in 1..Len(s) : s[i] = s[j] => i = j

\* C1: scan_normalization is pure: once it has returned, the caller's scan
\* holds the coordinates it held before the call, and the returned scan is a
\* separate value (another list object sharing no row object with the
\* caller's), also after the caller has modified the returned scan.
C1_ScanNormalizationPure ==
    pc \in {"returned", "modified"} =>
        /\ Coordinates(rows, lists, scan) = saved
        /\ ret # scan
        /\ Used(lists[ret]) \cap Used(lists[scan]) = {}

C3_ScanHeight ==
    height # <<>> =>
        LET s == lists[measured]
            zs == ZValues(rows, s)
        IN  /\ height[1] = RSub(Greatest(zs), Least(zs))
            /\ ~RLess(height[1], RZero)
            /\ (height[1] = RZero) <=> (Cardinality(zs) = 1)
            /\ \A a \in Used(s) : \A x, y \in AltXY :
                  scan_height([rows EXCEPT ![a][1] = x, ![a][2] = y], s) = height[1]
            /\ \A p \in Perms(Len(s)) :
                  scan_height(rows, [i \in 1..Len(s) |-> s[p[i]]]) = height[1]

\* C3 witness: a height was returned for a scan of three points whose greatest
\* z is neither first nor last and whose x, y and z differ.
C3_Witness ==
    /\ height # <<>> /\ RLess(RZero, height[1])
    /\ LET s == lists[measured]
           z == ZColumn(rows, s)
       IN  /\ Len(s) = 3
           /\ RLess(z[1], z[2]) /\ RLess(z[3], z[1])
           /\ rows[s[1]][1] # rows[s[1]][3] /\ rows[s[1]][2] # rows[s[1]][3]

(***************************************************************************)
(* persistent_homology.bottleneck_distance                                 *)
(***************************************************************************)
MaxEntries == 3
\* a diagram of one homology dimension: a list of (birth, death) intervals
Diagrams == {<<>>, <<<<0, 2>>>>, <<<<0, 2>>, <<1, 7>>>>}
DiagramLists == UNION {[1..n -> Diagrams] : n \in 1..MaxEntries}

\* def bottleneck_distance(pdiagram_decolor_1, pdiagram_decolor_2, dimension=2)
DefaultDimension == 2
DimensionArgs == {<<>>} \cup {<<n>> : n \in -1..MaxEntries}
Dimension(arg) == IF arg = <<>> THEN DefaultDimension ELSE arg[1]

\* gd.bottleneck_distance(diagram_1, diagram_2) of the gudhi library: the least,
\* over the partial matchings of the two diagrams, of the greatest cost, where a
\* matched pair costs its L-infinity distance and an unmatched interval its
\* L-infinity distance to the diagonal, (death - birth) / 2.  Costs are doubled
\* while they are integers, and halved at the end.
Max2(a, b) == IF a < b THEN b ELSE a
PairCost2(p, q) == 2 * Max2(Abs(p[1] - q[1]), Abs(p[2] - q[2]))
DiagonalCost2(p) == p[2] - p[1]
Matchings(A, B) ==
    {m \in [1..Len(A) -> 0..Len(B)] :
        \A i, j \in 1..Len(A) : (m[i] = m[j] /\ m[i] # 0) => i = j}
MatchingCost2(A, B, m) ==
    LET costs == {PairCost2(A[i], B[m[i]]) : i \in {k \in 1..Len(A) : m[k] # 0}}
                 \cup {DiagonalCost2(A[i]) : i \in {k \in 1..Len(A) : m[k] = 0}}
                 \cup {DiagonalCost2(B[j]) :
                          j \in {k \in 1..Len(B) : \A i \in 1..Len(A) : m[i] # k}}
                 \cup {0}
    IN  CHOOSE c \in costs : \A o \in costs : o <= c
gd_bottleneck_distance(A, B) ==
    LET all == {MatchingCost2(A, B, m) : m \in Matchings(A, B)}
    IN  Rat(CHOOSE c \in all : \A o \in all : c <= o, 2)

\* a slip in the range: every entry both lists have, as wasserstein_distance
\* does, whatever dimension is
DistancesAllEntries(p1, p2, dim) ==
    [i \in 1..(IF Len(p1) < Len(p2) THEN Len(p1) ELSE Len(p2)) |->
        gd_bottleneck_distance(p1[i], p2[i])]

\* distances = []
\* for i in range(dimension + 1):
\*     distances.append(gd.bottleneck_distance(pdiagram_decolor_1[i], pdiagram_decolor_2[i]))
Distances(p1, p2, dim) ==
    [i \in 1..(dim + 1) |-> gd_bottleneck_distance(p1[i], p2[i])]

\* return max(distances), for 0 <= dimension < len of both lists
bottleneck_distance(p1, p2, dim) == PyMax(Distances(p1, p2, dim))

InitPH ==
    /\ rows = <<>> /\ lists = [a \in {ScanAddr} |-> <<>>] /\ scan = ScanAddr
    /\ target = <<>> /\ ret = None /\ saved = <<>> /\ height = <<>>
    /\ measured = None /\ pc = "idle" /\ exc = ""
    /\ pd1 \in DiagramLists
    /\ pd2 \in DiagramLists
    /\ dimension \in DimensionArgs
    /\ bd = <<>>
    /\ bpc = "start"
    /\ bexc = ""

\* The caller evaluates bottleneck_distance(pd1, pd2, dimension).
BottleneckDistance ==
    /\ bpc = "start"
    /\ LET dim == Dimension(dimension) IN
       IF dim + 1 > Len(pd1) \/ dim + 1 > Len(pd2)
       THEN \* pdiagram_decolor_k[i] with i out of range
            /\ bpc' = "raised" /\ bexc' = "IndexError" /\ bd' = <<>>
       ELSE IF dim + 1 <= 0
       THEN \* max([])
            /\ bpc' = "raised" /\ bexc' = "ValueError" /\ bd' = <<>>
       ELSE /\ bd' = <<bottleneck_distance(pd1, pd2, dim)>>
            /\ bpc' = "returned"
            /\ bexc' = ""
    /\ UNCHANGED <<pd1, pd2, dimension>>
    /\ UNCHANGED meshVars

NextPH == BottleneckDistance

SpecPH == InitPH /\ [][NextPH]_vars

(***************************************************************************)
(* Properties of persistent_homology, checked under SpecPH.                *)
(***************************************************************************)
\* C4: bottleneck_distance returns the greatest, over the homology dimensions
\* i in 0..dimension, of the bottleneck distance between pdiagram_decolor_1[i]
\* and pdiagram_decolor_2[i]; the entries at indices above dimension, present
\* or not, replaced by any diagram or not, do not change the result.
C4_BottleneckDistance ==
    bpc = "returned" =>
        LET dim == Dimension(dimension)
            ds == {gd_bottleneck_distance(pd1[i + 1], pd2[i + 1]) : i \in 0..dim}
        IN  /\ bd[1] \in ds
            /\ \A d \in ds : ~RLess(bd[1], d)
            /\ \A k \in (dim + 2)..Len(pd1) : \A X \in Diagrams :
                  bottleneck_distance([pd1 EXCEPT ![k] = X], pd2, dim) = bd[1]
            /\ \A k \in (dim + 2)..Len(pd2) : \A X \in Diagrams :
                  bottleneck_distance(pd1, [pd2 EXCEPT ![k] = X], dim) = bd[1]
            /\ bottleneck_distance(SubSeq(pd1, 1, dim + 1),
                                   SubSeq(pd2, 1, dim + 1), dim) = bd[1]

\* C4 witness: a distance was returned for dimension 1 that is greater than the
\* distance in dimension 0 and less than the distance of the entries at index 2.
C4_Witness ==
    /\ bpc = "returned" /\ dimension = <<1>>
    /\ Len(pd1) = 3 /\ Len(pd2) = 3
    /\ RLess(gd_bottleneck_distance(pd1[1], pd2[1]), bd[1])
    /\ RLess(bd[1], gd_bottleneck_distance(pd1[3], pd2[3]))

====
